---- MODULE Spec2Model ----
\* A model of MCPServerProxy (src/src/server.ts): the backend connection set
\* (clients), the tool registry (toolMap), the active profile, and the async
\* operations start, switchProfile, cleanup, connectToServer, handleListTools
\* and handleCallTool, each cut at the awaits where it is suspended on I/O.
\*
\* Strings are sequences of characters (one-character TLA+ strings); the fixed
\* fragments of a template literal are single elements, so that a template is
\* the concatenation the code builds and "contains" is a sub-sequence test.
EXTENDS Integers, Sequences, FiniteSets, TLC

\* ---------------------------------------------------------------- bounds
\* number of switchProfile calls that may overlap (one process each)
MaxSwitch == 2
\* number of switchProfile calls made one after the other
MaxSeq == 1
\* number of GET /sse requests (one session each)
MaxSessions == 2

\* ---------------------------------------------------------------- names
\* profile names; "default" is the initial value of currentProfile (line 43)
pDefault == <<"default">>
pDev == <<"dev">>
pMissing == <<"missing">>
pOne == <<"one">>
Profiles == {pDefault, pDev, pMissing}

\* backend ids (keys of mcpServers) and the operations the backends report
sA == <<"a">>
sAB == <<"a", "_", "b">>
sK == <<"k">>
sN == <<"n">>
tBC == <<"b", "_", "c">>
tC == <<"c">>
tX == <<"x">>
tG == <<"g">>

\* the answer of a backend to listTools: its tools, in order
Reported(serverId) ==
    CASE serverId = sA -> <<tBC, tX>>
      [] serverId = sAB -> <<tC>>
      [] serverId = sK -> <<tG>>
      [] OTHER -> <<>>

\* config.<profile>.json as parsed: the entries of mcpServers in key order; kind
\* says which of command / url the entry has ("none": neither)
ConfigFile(profile) ==
    CASE profile = pDefault -> << [id |-> sA, kind |-> "command"], [id |-> sAB, kind |-> "url"] >>
      [] profile = pDev -> << [id |-> sK, kind |-> "command"], [id |-> sN, kind |-> "none"], [id |-> sA, kind |-> "url"] >>
      [] profile = pOne -> << [id |-> sK, kind |-> "command"] >>
      [] OTHER -> <<>>

\* the profiles whose config file exists and parses
Loadable == {pDefault, pDev, pOne}

\* ------------------------------------------------------------ JS Map
\* A Map is the sequence of its entries in insertion order.
HasKey(m, k) == \E i \in 1..Len(m) : m[i].key = k
IndexOf(m, k) == CHOOSE i \in 1..Len(m) : m[i].key = k
MapGet(m, k) == m[IndexOf(m, k)].val
MapSet(m, k, v) ==
    IF HasKey(m, k) THEN [m EXCEPT ![IndexOf(m, k)].val = v]
    ELSE Append(m, [key |-> k, val |-> v])
Keys(m) == {m[i].key : i \in 1..Len(m)}
Values(m) == {m[i].val : i \in 1..Len(m)}

\* `${serverId}_${tool.name}` (lines 128 and 137)
PrefixedName(serverId, toolName) == serverId \o <<"_">> \o toolName

\* text contains sub as a contiguous part
Contains(text, sub) ==
    \E i \in 0..(Len(text) - Len(sub)) : SubSeq(text, i + 1, i + Len(sub)) = sub

VARIABLES
    clients,        \* Map serverId -> Client, the value being an index into cl
    toolMap,        \* Map prefixed name -> ToolInfo
    currentProfile, \* this.currentProfile
    config,         \* this.config.mcpServers, as entries
    transports,     \* this.transports: the session ids, in insertion order
    sessions,       \* every SSEServerTransport created so far
    mode,           \* the mode argument of start(): "stdio" or "sse"
    cl,             \* every Client object created so far
    sw,             \* the start() call (process 0) and the switchProfile calls
    call,           \* the caller's request being handled, and its response
    exited,         \* process.exit was called
    post            \* the last POST /messages request and its outcome

vars == <<clients, toolMap, currentProfile, config, transports, sessions, mode, cl, sw, call, exited, post>>

Procs == 0..MaxSwitch
Switches == 1..MaxSwitch

\* ------------------------------------------------------------ the object
\* The fields of the proxy and the objects it owns, as one record, so that the
\* synchronous part of a handler (from one await to the next) is a function
\* from record to record.
M ==
    [clients |-> clients, toolMap |-> toolMap, currentProfile |-> currentProfile,
     config |-> config, transports |-> transports, sessions |-> sessions,
     cl |-> cl, sw |-> sw, exited |-> exited]

Becomes(m) ==
    /\ clients' = m.clients
    /\ toolMap' = m.toolMap
    /\ currentProfile' = m.currentProfile
    /\ config' = m.config
    /\ transports' = m.transports
    /\ sessions' = m.sessions
    /\ cl' = m.cl
    /\ sw' = m.sw
    /\ exited' = m.exited

\* a call of start or switchProfile that has not begun
IdleProc ==
    [pc |-> "idle", profile |-> <<>>, fatal |-> FALSE, ts |-> <<>>, tj |-> 0, it |-> 0,
     entries |-> <<>>, i |-> 0, c |-> 0, tried |-> <<>>,
     pre |-> [clients |-> <<>>, toolMap |-> <<>>, profile |-> <<>>], alone |-> TRUE]

\* the calls that are between their first and their last statement
Running(s) == {p \in Procs : s[p].pc \in {"cleanT", "cleanC", "read", "conn", "list", "serve"}}

\* ------------------------------------------------------------ connectToServer
\* The tools of a listTools answer, registered in order (lines 127-130).
RECURSIVE RegisterTools(_, _, _, _)
RegisterTools(tm, serverId, tools, act) ==
    IF tools = <<>> THEN tm
    ELSE RegisterTools(
            MapSet(tm, PrefixedName(serverId, Head(tools)),
                   [serverId |-> serverId, tool |-> [name |-> Head(tools)], act |-> act]),
            serverId, Tail(tools), act)

\* The loop of lines 219-228 / 247-253 from entry i on, up to the next await:
\* connectToServer returns at once for an id already in clients (line 96), throws
\* at once for an entry with neither command nor url (line 104, caught at line
\* 222 / 250), and otherwise creates a Client and awaits client.connect (line
\* 117). After the last entry switchProfile returns and start goes on to line
\* 256. The Client that line 100 makes for an entry with neither command nor url
\* never gets a transport and is not kept in cl.
RECURSIVE ConnectLoop(_, _, _)
ConnectLoop(m, p, i) ==
    LET es == m.sw[p].entries IN
    IF i > Len(es) THEN
        [m EXCEPT !.sw[p].i = i,
                  !.sw[p].pc = IF p = 0 /\ mode = "stdio" THEN "serve" ELSE "done"]
    ELSE
        LET e == es[i]
            m1 == [m EXCEPT !.sw[p].tried = Append(@, e.id)]
        IN IF HasKey(m.clients, e.id) \/ e.kind = "none" THEN ConnectLoop(m1, p, i + 1)
           ELSE [m1 EXCEPT !.cl = Append(@, [sid |-> e.id, kind |-> e.kind, act |-> p, st |-> "connecting",
                                             closeN |-> 0, listed |-> FALSE]),
                           !.sw[p].pc = "conn", !.sw[p].i = i, !.sw[p].c = Len(m.cl) + 1]

\* client.connect settled (line 117): on success the client is put into clients
\* (line 118) and listTools is awaited (line 120); on failure connectToServer
\* throws and the loop goes on with the next entry.
ConnectSettled(m, p, ok) ==
    LET c == m.sw[p].c
        sid == m.cl[c].sid
    IN IF ok THEN
           [m EXCEPT !.cl[c].st = "open",
                     !.clients = MapSet(@, sid, c),
                     !.sw[p].pc = "list"]
       ELSE ConnectLoop([m EXCEPT !.cl[c].st = "failed"], p, m.sw[p].i + 1)

\* client.listTools settled (line 120): on success the tools are registered
\* (lines 127-130); either way the loop goes on with the next entry.
ListSettled(m, p, ok) ==
    LET c == m.sw[p].c
        sid == m.cl[c].sid
    IN IF ok THEN
           ConnectLoop([m EXCEPT !.toolMap = RegisterTools(@, sid, Reported(sid), p),
                                 !.cl[c].listed = TRUE],
                       p, m.sw[p].i + 1)
       ELSE ConnectLoop(m, p, m.sw[p].i + 1)

\* ------------------------------------------------------------ cleanup
\* transport.close() of a session's SSEServerTransport: the stream is ended and
\* the onclose handler (lines 279-284) removes the session from the map.
RemoveKey(seq, k) == SelectSeq(seq, LAMBDA x : x # k)
CloseTransport(m, s) ==
    [m EXCEPT !.sessions[s].open = FALSE,
              !.sessions[s].closeN = @ + 1,
              !.transports = RemoveKey(@, s)]

\* a switchProfile that clears the connection set and leaves the registry
AfterCleanupKeepsRegistry(m, p) ==
    IF m.sw[p].fatal THEN [m EXCEPT !.exited = TRUE, !.sw[p].pc = "exited"]
    ELSE [m EXCEPT !.clients = <<>>,
                   !.sw = [q \in Procs |->
                             IF q = p THEN [m.sw[q] EXCEPT !.pc = "read"]
                             ELSE IF m.sw[q].pc = "cleanC" THEN [m.sw[q] EXCEPT !.it = 0]
                             ELSE m.sw[q]]]
\* a switchProfile that clears the registry and leaves the connection set
AfterCleanupKeepsClients(m, p) ==
    IF m.sw[p].fatal THEN [m EXCEPT !.exited = TRUE, !.sw[p].pc = "exited"]
    ELSE [m EXCEPT !.toolMap = <<>>,
                   !.sw = [q \in Procs |->
                             IF q = p THEN [m.sw[q] EXCEPT !.pc = "read"]
                             ELSE IF m.sw[q].pc = "cleanC" THEN [m.sw[q] EXCEPT !.it = 0]
                             ELSE m.sw[q]]]

\* What follows cleanup(): switchProfile clears both maps (lines 211-212) and
\* awaits the file read of readConfig (line 81); runServer's catch (lines
\* 396-400) exits the process. clients.clear() sends every Map iterator in
\* progress back to the start of the (now empty) entry list.
AfterCleanup(m, p) ==
    IF m.sw[p].fatal THEN [m EXCEPT !.exited = TRUE, !.sw[p].pc = "exited"]
    ELSE [m EXCEPT !.clients = <<>>,
                   !.toolMap = <<>>,
                   !.sw = [q \in Procs |->
                             IF q = p THEN [m.sw[q] EXCEPT !.pc = "read"]
                             ELSE IF m.sw[q].pc = "cleanC" THEN [m.sw[q] EXCEPT !.it = 0]
                             ELSE m.sw[q]]]
\* a clients loop that gives up at the first close that throws
ClientsLoopStopsOnThrow(m, p, from, out) ==
    LET open == {k \in from..Len(m.clients) : m.cl[m.clients[k].val].st = "open"} IN
    IF open = {} \/ (from > 1 /\ m.cl[m.clients[from - 1].val].st = "open") THEN AfterCleanup(m, p)
    ELSE LET k == CHOOSE x \in open : \A y \in open : x <= y
             c == m.clients[k].val
         IN [m EXCEPT !.cl[c].closeN = @ + 1,
                      !.cl[c].st = IF out = "ok" THEN "closed" ELSE @,
                      !.sw[p].pc = "cleanC",
                      !.sw[p].it = k]

\* The loop over this.clients.values() (lines 353-360) from position `from` on:
\* a client whose transport is gone is passed over (client.transport?.close()
\* calls nothing); the first client with a transport has close called on it,
\* which closes it (out = "ok") or throws (out = "throw", caught at line 357),
\* and cleanup awaits.
ClientsLoop(m, p, from, out) ==
    LET open == {k \in from..Len(m.clients) : m.cl[m.clients[k].val].st = "open"} IN
    IF open = {} THEN AfterCleanup(m, p)
    ELSE LET k == CHOOSE x \in open : \A y \in open : x <= y
             c == m.clients[k].val
         IN [m EXCEPT !.cl[c].closeN = @ + 1,
                      !.cl[c].st = IF out = "ok" THEN "closed" ELSE @,
                      !.sw[p].pc = "cleanC",
                      !.sw[p].it = k]

\* transport.close() is called on session s: it closes the transport, or it
\* throws and leaves it as it was
CloseSession(m, s, out) ==
    IF out = "ok" THEN CloseTransport(m, s)
    ELSE [m EXCEPT !.sessions[s].closeN = @ + 1]

\* The loop over Object.values(this.transports) (lines 343-349), a snapshot
\* taken when the loop starts, from position j on: close is called on the
\* transport (a throw is caught at line 346) and awaited; after the loop the map
\* is reset (line 350) and the clients are closed.
TransportsLoop(m, p, j, out) ==
    IF j <= Len(m.sw[p].ts) THEN
        [CloseSession(m, m.sw[p].ts[j], out) EXCEPT !.sw[p].pc = "cleanT", !.sw[p].tj = j]
    ELSE ClientsLoop([m EXCEPT !.transports = <<>>], p, 1, out)
\* a cleanup that resets the session map and returns without closing anything
CleanupClosesNothing(m, p, out) ==
    AfterCleanup([m EXCEPT !.transports = <<>>], p)

\* cleanup() from its first statement to its first await
Cleanup(m, p, out) ==
    TransportsLoop([m EXCEPT !.sw[p].ts = m.transports], p, 1, out)

\* ------------------------------------------------------------ readConfig
\* The file read of readConfig settled (lines 81-89) and the caller resumed: a
\* loaded config is stored, currentProfile is set (line 216 / 244) and the loop
\* over the entries starts; a failed load throws "Failed to load profile", out of
\* switchProfile to its caller, and out of start to runServer's catch, which
\* awaits cleanup() and exits.
ReadSettled(m, p, out) ==
    LET prof == m.sw[p].profile IN
    IF prof \in Loadable THEN
        ConnectLoop([m EXCEPT !.config = ConfigFile(prof),
                              !.currentProfile = prof,
                              !.sw[p].entries = ConfigFile(prof),
                              !.sw[p].pre = IdleProc.pre], p, 1)
    ELSE IF p = 0 THEN Cleanup([m EXCEPT !.sw[p].fatal = TRUE], p, out)
    ELSE [m EXCEPT !.sw[p].pc = "threw"]

\* ------------------------------------------------------------ request handlers
\* params.arguments of a request; a request without arguments gets {} (line 154)
Args == {"undefined", "{x:1}"}
Arguments(args) == IF args = "undefined" THEN "{}" ELSE args
Metas == {"undefined", "token"}
\* what a backend answers to callTool: a result, which may carry its own error
\* flag
BackendResults ==
    {[content |-> <<"result">>, isError |-> FALSE, meta |-> "undefined"],
     [content |-> <<"failed">>, isError |-> TRUE, meta |-> "undefined"]}
\* how callTool settles: with a result (err empty), or rejected with an error
Returned == {[result |-> r, err |-> <<>>] : r \in BackendResults}
Rejected(e) == [result |-> [content |-> <<>>, isError |-> FALSE, meta |-> "undefined"], err |-> e]
ToolFailed == Rejected(<<"McpError: tool failed">>)
ConnectionClosed == Rejected(<<"McpError: Connection closed">>)
\* the names a caller asks for: the prefixed names of the backends' tools, and
\* a name that no backend has
CallNames ==
    {PrefixedName(sA, tBC), PrefixedName(sA, tX), PrefixedName(sK, tG), <<"z">>}

IdleCall ==
    [pc |-> "idle", kind |-> "none", name |-> <<>>, args |-> "undefined", meta |-> "undefined",
     c |-> 0, sent |-> <<>>, listing |-> <<>>,
     resp |-> [content |-> <<>>, isError |-> FALSE, meta |-> "undefined"]]

\* handleListTools (lines 133-144): the values of toolMap in insertion order,
\* the name rebuilt from serverId and tool name, the description annotated with
\* profile and backend
ListTools(tm, prof) ==
    [i \in 1..Len(tm) |->
        [name |-> PrefixedName(tm[i].val.serverId, tm[i].val.tool.name),
         description |-> <<"[">> \o prof \o <<"/">> \o tm[i].val.serverId \o <<"] ">>]]

\* a not-found response that leaves the profile out of its text
NotFoundResponseNoProfile(name, meta, prof) ==
    [content |-> <<"Tool ">> \o name \o <<" not found">>, isError |-> TRUE, meta |-> meta]

\* the response of lines 158-167
NotFoundResponse(name, meta, prof) ==
    [content |-> <<"Tool ">> \o name \o <<" not found in profile ">> \o prof,
     isError |-> TRUE, meta |-> meta]

\* the response of lines 174-183
NotConnectedResponse(serverId, meta, prof) ==
    [content |-> <<"Server ">> \o serverId \o <<" not connected in profile ">> \o prof,
     isError |-> TRUE, meta |-> meta]

\* the response of lines 198-204; err is `${error}`
CallErrorResponse(name, err, meta) ==
    [content |-> <<"Error calling tool ">> \o name \o <<": ">> \o err,
     isError |-> TRUE, meta |-> meta]

\* handleCallTool from its first statement to the await of client.callTool (line
\* 192) or to its return; sent is the callTool it made. callTool on a client
\* whose transport is gone rejects at once with "Not connected".
CallToolRequest(tm, cls, clv, prof, name, args, meta) ==
    LET base == [IdleCall EXCEPT !.kind = "call", !.name = name, !.args = args, !.meta = meta] IN
    IF ~HasKey(tm, name) THEN
        [base EXCEPT !.pc = "done", !.resp = NotFoundResponse(name, meta, prof)]
    ELSE
        LET serverId == MapGet(tm, name).serverId IN
        IF ~HasKey(cls, serverId) THEN
            [base EXCEPT !.pc = "done", !.resp = NotConnectedResponse(serverId, meta, prof)]
        ELSE
            LET c == MapGet(cls, serverId)
                mappedTool == MapGet(tm, name)
                invoke == [client |-> c, serverId |-> clv[c].sid,
                           name |-> mappedTool.tool.name, arguments |-> Arguments(args)]
            IN IF clv[c].st # "open" THEN
                   [base EXCEPT !.pc = "done", !.c = c, !.sent = <<invoke>>,
                                !.resp = CallErrorResponse(name, <<"Error: Not connected">>, meta)]
               ELSE
                   [base EXCEPT !.pc = "await", !.c = c, !.sent = <<invoke>>]
\* a catch branch that answers without the request's _meta
CallToolSettledDropsMeta(cs, out) ==
    IF out.err = <<>> THEN [cs EXCEPT !.pc = "done", !.resp = out.result]
    ELSE [cs EXCEPT !.pc = "done", !.resp = CallErrorResponse(cs.name, out.err, "undefined")]

\* client.callTool settled (lines 192-205): a result is returned as it is, a
\* rejection is caught and wrapped
CallToolSettled(cs, out) ==
    IF out.err = <<>> THEN [cs EXCEPT !.pc = "done", !.resp = out.result]
    ELSE [cs EXCEPT !.pc = "done", !.resp = CallErrorResponse(cs.name, out.err, cs.meta)]

\* no POST /messages request was made yet
IdlePost == [id |-> 0, status |-> "none", to |-> 0]

\* ------------------------------------------------------------ actions
Init ==
    /\ clients = <<>>
    /\ toolMap = <<>>
    /\ currentProfile = pDefault
    /\ config = <<>>
    /\ transports = <<>>
    /\ sessions = <<>>
    /\ mode = "stdio"
    /\ cl = <<>>
    /\ sw = [p \in Procs |-> IdleProc]
    /\ call = IdleCall
    /\ exited = FALSE
    /\ post = IdlePost

\* the proxy serves requests: start() has returned
Serving == sw[0].pc = "done" /\ ~exited

\* how transport.close() ends: it closes the connection, or it throws and
\* leaves the connection as it was
CloseOutcomes == {"ok", "throw"}

\* runServer calls start(profile, mode) (line 390), which awaits readConfig
Start(profile) ==
    /\ ~exited
    /\ sw[0].pc = "idle"
    /\ sw' = [sw EXCEPT ![0] = [IdleProc EXCEPT !.pc = "read", !.profile = profile]]
    /\ UNCHANGED <<clients, toolMap, currentProfile, config, transports, sessions, mode, cl, call, exited, post>>

\* switchProfile(profileName) is called (line 208) and runs cleanup() to its
\* first await
SwitchProfile(p, profileName, out) ==
    /\ Serving
    /\ sw[p].pc = "idle"
    /\ p = 1 \/ sw[p - 1].pc # "idle"
    /\ LET others == Running(sw)
           m0 == [M EXCEPT !.sw = [q \in Procs |->
                     IF q = p THEN
                         [IdleProc EXCEPT !.profile = profileName,
                                          !.pre = [clients |-> clients, toolMap |-> toolMap,
                                                   profile |-> currentProfile],
                                          !.alone = (others = {})]
                     ELSE IF q \in others THEN [sw[q] EXCEPT !.alone = FALSE]
                     ELSE sw[q]]]
       IN Becomes(Cleanup(m0, p, out))
    /\ UNCHANGED <<mode, call, post>>

\* the await of transport.close() in cleanup (line 345) is over
CleanupTransportDone(p, out) ==
    /\ ~exited
    /\ sw[p].pc = "cleanT"
    /\ Becomes(TransportsLoop(M, p, sw[p].tj + 1, out))
    /\ UNCHANGED <<mode, call, post>>

\* the await of client.transport?.close() in cleanup (line 356) is over
CleanupClientDone(p, out) ==
    /\ ~exited
    /\ sw[p].pc = "cleanC"
    /\ Becomes(ClientsLoop(M, p, sw[p].it + 1, out))
    /\ UNCHANGED <<mode, call, post>>

\* the file read of readConfig is over
ReadConfigDone(p, out) ==
    /\ ~exited
    /\ sw[p].pc = "read"
    /\ Becomes(ReadSettled(M, p, out))
    /\ UNCHANGED <<mode, call, post>>

\* client.connect is over
ConnectDone(p, ok) ==
    /\ ~exited
    /\ sw[p].pc = "conn"
    /\ Becomes(ConnectSettled(M, p, ok))
    /\ UNCHANGED <<mode, call, post>>

\* A request on client c can still be answered: the connection is open, or it
\* is the pipe of a subprocess (command), where close() only signals the
\* process and what the backend had already written is still read; closing a
\* url connection rejects the requests in flight at once.
CanAnswer(c) == cl[c].st = "open" \/ cl[c].kind = "command"

\* client.listTools is over
ListToolsDone(p, ok) ==
    /\ ~exited
    /\ sw[p].pc = "list"
    /\ ok => CanAnswer(sw[p].c)
    /\ Becomes(ListSettled(M, p, ok))
    /\ UNCHANGED <<mode, call, post>>

\* server.connect(transport) of start in stdio mode (line 258) is over; a
\* failure is thrown to runServer's catch
ServeDone(ok, out) ==
    /\ ~exited
    /\ sw[0].pc = "serve"
    /\ IF ok THEN Becomes([M EXCEPT !.sw[0].pc = "done"])
       ELSE Becomes(Cleanup([M EXCEPT !.sw[0].fatal = TRUE], 0, out))
    /\ UNCHANGED <<mode, call, post>>

\* the backend of a client in the connection set dies or drops its
\* connection: the transport closes, and the client stays in clients (the proxy
\* sets no onclose handler)
BackendCrash(c) ==
    /\ ~exited
    /\ c \in Values(clients)
    /\ cl[c].st = "open"
    /\ cl' = [cl EXCEPT ![c].st = "closed"]
    /\ UNCHANGED <<clients, toolMap, currentProfile, config, transports, sessions, mode, sw, call, exited, post>>

\* a tools/list request is handled
HandleListTools ==
    /\ Serving
    /\ call.pc # "await"
    /\ call' = [IdleCall EXCEPT !.pc = "done", !.kind = "list",
                                !.listing = ListTools(toolMap, currentProfile)]
    /\ UNCHANGED <<clients, toolMap, currentProfile, config, transports, sessions, mode, cl, sw, exited, post>>

\* a tools/call request is handled up to its await or its return
HandleCallTool(name, args, meta) ==
    /\ Serving
    /\ call.pc # "await"
    /\ call' = CallToolRequest(toolMap, clients, cl, currentProfile, name, args, meta)
    /\ UNCHANGED <<clients, toolMap, currentProfile, config, transports, sessions, mode, cl, sw, exited, post>>

\* callTool settles: with a result, with an error of the backend or, on a
\* connection closed in the meantime, with the rejection "Connection closed"
CallToolDone(out) ==
    /\ ~exited
    /\ call.pc = "await"
    /\ out \in Returned => CanAnswer(call.c)
    /\ out = ConnectionClosed => cl[call.c].st # "open"
    /\ call' = CallToolSettled(call, out)
    /\ UNCHANGED <<clients, toolMap, currentProfile, config, transports, sessions, mode, cl, sw, exited, post>>

\* switchProfile called while no other start or switchProfile call is running
SwitchProfileAlone(p, profileName, out) ==
    /\ Running(sw) = {}
    /\ SwitchProfile(p, profileName, out)

\* ------------------------------------------------------------ SSE mode
\* runServer calls start(profile, "sse"), which awaits readConfig
StartSse(profile) ==
    /\ ~exited
    /\ sw[0].pc = "idle"
    /\ mode' = "sse"
    /\ sw' = [sw EXCEPT ![0] = [IdleProc EXCEPT !.pc = "read", !.profile = profile]]
    /\ UNCHANGED <<clients, toolMap, currentProfile, config, transports, sessions, cl, call, exited, post>>

\* the SSEServerTransport of a new session: started says that
\* server.connect(transport) succeeded, open that the transport was not closed,
\* req that the request's 'close' event is still to come, closeN how often
\* close() was called on it
NewSession(started) == [started |-> started, open |-> TRUE, req |-> TRUE, closeN |-> 0]

\* GET /sse (lines 267-306): a transport is made and put into the map under its
\* session id, the handlers are set and server.connect(transport) is awaited; a
\* failure is caught and the response ended (line 303). The session id is the
\* index of the transport in sessions.
OpenSession(ok) ==
    /\ Serving
    /\ mode = "sse"
    /\ Len(sessions) < MaxSessions
    /\ sessions' = Append(sessions, NewSession(ok))
    /\ transports' = Append(transports, Len(sessions) + 1)
    /\ UNCHANGED <<clients, toolMap, currentProfile, config, mode, cl, sw, call, exited, post>>

\* the request of session s emits 'close' (the caller disconnected, or the
\* connection went down after the response was ended): the first handler (lines
\* 291-296) deletes the session from the map, the second (lines 299-304) deletes
\* it and calls transport.close(), whose rejection is caught
ClientDisconnect(s, out) ==
    /\ ~exited
    /\ s \in 1..Len(sessions)
    /\ sessions[s].req
    /\ LET m1 == [M EXCEPT !.transports = RemoveKey(RemoveKey(@, s), s),
                           !.sessions[s].req = FALSE]
       IN Becomes(CloseSession(m1, s, out))
    /\ UNCHANGED <<mode, call, post>>

\* the transport of session s reports an error: the onerror handler (lines
\* 286-289) deletes the session from the map
TransportError(s) ==
    /\ ~exited
    /\ s \in 1..Len(sessions)
    /\ sessions[s].open
    /\ transports' = RemoveKey(transports, s)
    /\ UNCHANGED <<clients, toolMap, currentProfile, config, sessions, mode, cl, sw, call, exited, post>>

\* a lookup that finds every transport ever made, not only those in the map
RouteMessageAnySession(trs, ss, sessionId, ok) ==
    IF sessionId \notin 1..Len(ss) THEN [id |-> sessionId, status |-> "400", to |-> 0]
    ELSE IF ok THEN [id |-> sessionId, status |-> "handled", to |-> sessionId]
    ELSE [id |-> sessionId, status |-> "500", to |-> sessionId]

\* POST /messages (lines 310-326): without a transport under sessionId the
\* answer is 400 'No transport found for sessionId'; otherwise the transport's
\* handlePostMessage gets the request (to) and answers it, or throws and the
\* answer is 500
RouteMessage(trs, ss, sessionId, ok) ==
    IF \A j \in 1..Len(trs) : trs[j] # sessionId THEN [id |-> sessionId, status |-> "400", to |-> 0]
    ELSE IF ok THEN [id |-> sessionId, status |-> "handled", to |-> sessionId]
    ELSE [id |-> sessionId, status |-> "500", to |-> sessionId]

\* the session ids a caller posts with: those issued and one that never is
PostIds == 1..(MaxSessions + 1)

\* a message is posted with sessionId; a transport that is closed or was never
\* started does not handle it
PostMessage(sessionId, ok) ==
    /\ Serving
    /\ mode = "sse"
    /\ ok => /\ sessionId \in 1..Len(sessions)
             /\ sessions[sessionId].open /\ sessions[sessionId].started
    /\ post' = RouteMessage(transports, sessions, sessionId, ok)
    /\ UNCHANGED <<clients, toolMap, currentProfile, config, transports, sessions, mode, cl, sw, call, exited>>

\* the profiles switchProfile is called with
SwitchTo == {pDev, pMissing}

\* The proxy under switchProfile calls that may overlap; every close succeeds.
Next ==
    \/ \E profile \in Profiles : Start(profile)
    \/ \E p \in Switches, profile \in SwitchTo : SwitchProfile(p, profile, "ok")
    \/ \E p \in Procs : CleanupClientDone(p, "ok")
    \/ \E p \in Procs : ReadConfigDone(p, "ok")
    \/ \E p \in Procs, ok \in BOOLEAN : ConnectDone(p, ok)
    \/ \E p \in Procs, ok \in BOOLEAN : ListToolsDone(p, ok)
    \/ \E ok \in BOOLEAN : ServeDone(ok, "ok")

Spec == Init /\ [][Next]_vars

\* The proxy under switchProfile calls that do not overlap, with closes that
\* may throw and backends that may die.
NextSeq ==
    \/ \E profile \in Profiles : Start(profile)
    \/ \E p \in 1..MaxSeq, profile \in Profiles, out \in CloseOutcomes : SwitchProfileAlone(p, profile, out)
    \/ \E p \in Procs, out \in CloseOutcomes : CleanupClientDone(p, out)
    \/ \E p \in Procs, out \in CloseOutcomes : ReadConfigDone(p, out)
    \/ \E p \in Procs, ok \in BOOLEAN : ConnectDone(p, ok)
    \/ \E p \in Procs, ok \in BOOLEAN : ListToolsDone(p, ok)
    \/ \E ok \in BOOLEAN, out \in CloseOutcomes : ServeDone(ok, out)
    \/ \E c \in Values(clients) : BackendCrash(c)

SpecSeq == Init /\ [][NextSeq]_vars

\* The proxy serving requests, with one switchProfile call.
NextCall ==
    \/ \E profile \in Profiles : Start(profile)
    \/ \E profile \in SwitchTo : SwitchProfile(1, profile, "ok")
    \/ \E p \in Procs : CleanupClientDone(p, "ok")
    \/ \E p \in Procs : ReadConfigDone(p, "ok")
    \/ \E p \in Procs, ok \in BOOLEAN : ConnectDone(p, ok)
    \/ \E p \in Procs, ok \in BOOLEAN : ListToolsDone(p, ok)
    \/ \E ok \in BOOLEAN : ServeDone(ok, "ok")
    \/ \E c \in Values(clients) : BackendCrash(c)
    \/ HandleListTools
    \/ \E name \in CallNames, args \in Args, meta \in Metas : HandleCallTool(name, args, meta)
    \/ \E out \in Returned \cup {ToolFailed, ConnectionClosed} : CallToolDone(out)

SpecCall == Init /\ [][NextCall]_vars

\* the profiles the proxy is started with and switched to in SSE mode
SseProfiles == {pOne, pMissing}

\* The proxy in SSE mode: caller sessions that open, fail and disconnect, and
\* one switchProfile call.
NextSse ==
    \/ \E profile \in SseProfiles : StartSse(profile)
    \/ \E profile \in SseProfiles, out \in CloseOutcomes : SwitchProfile(1, profile, out)
    \/ \E p \in Procs, out \in CloseOutcomes : CleanupTransportDone(p, out)
    \/ \E p \in Procs, out \in CloseOutcomes : CleanupClientDone(p, out)
    \/ \E p \in Procs : ReadConfigDone(p, "ok")
    \/ \E p \in Procs, ok \in BOOLEAN : ConnectDone(p, ok)
    \/ \E p \in Procs, ok \in BOOLEAN : ListToolsDone(p, ok)
    \/ \E ok \in BOOLEAN : OpenSession(ok)
    \/ \E s \in 1..MaxSessions, out \in CloseOutcomes : ClientDisconnect(s, out)
    \/ \E s \in 1..MaxSessions : TransportError(s)

SpecSse == Init /\ [][NextSse]_vars

\* The proxy in SSE mode with messages posted to its sessions; a switchProfile
\* call whose profile does not load closes the sessions and the backends.
NextPost ==
    \/ StartSse(pOne)
    \/ \E out \in CloseOutcomes : SwitchProfile(1, pMissing, out)
    \/ \E p \in Procs, out \in CloseOutcomes : CleanupTransportDone(p, out)
    \/ \E p \in Procs, out \in CloseOutcomes : CleanupClientDone(p, out)
    \/ \E p \in Procs : ReadConfigDone(p, "ok")
    \/ \E p \in Procs, ok \in BOOLEAN : ConnectDone(p, ok)
    \/ \E p \in Procs, ok \in BOOLEAN : ListToolsDone(p, ok)
    \/ \E ok \in BOOLEAN : OpenSession(ok)
    \/ \E s \in 1..MaxSessions, out \in CloseOutcomes : ClientDisconnect(s, out)
    \/ \E s \in 1..MaxSessions : TransportError(s)
    \/ \E sessionId \in PostIds, ok \in BOOLEAN : PostMessage(sessionId, ok)

SpecPost == Init /\ [][NextPost]_vars

\* The proxy deactivated again and again: switchProfile calls, one after the
\* other, for a profile that does not load, so that each call is cleanup() and
\* the two clears and nothing else.
NextOff ==
    \/ \E profile \in {pDefault, pDev} : Start(profile)
    \/ \E p \in Switches, out \in CloseOutcomes : SwitchProfileAlone(p, pMissing, out)
    \/ \E p \in Procs, out \in CloseOutcomes : CleanupClientDone(p, out)
    \/ \E p \in Procs : ReadConfigDone(p, "ok")
    \/ \E p \in Procs, ok \in BOOLEAN : ConnectDone(p, ok)
    \/ \E p \in Procs, ok \in BOOLEAN : ListToolsDone(p, ok)
    \/ ServeDone(TRUE, "ok")
    \/ \E c \in Values(clients) : BackendCrash(c)

SpecOff == Init /\ [][NextOff]_vars

\* ================================================================ claims
\* a step of HandleCallTool: a tools/call request handled up to its first await
\* or its return
CallToolStep == call.pc # "await" /\ call'.kind = "call" /\ call' # call

\* the pairs (serverId, tool name) of the backends in the connection set and
\* the tools they report
ConnectedPairs ==
    UNION {{<<clients[i].key, Reported(clients[i].key)[j]>> :
                j \in 1..Len(Reported(clients[i].key))} : i \in 1..Len(clients)}

\* those of them that the client in the connection set has registered
RegisteredPairs == {pr \in ConnectedPairs : cl[MapGet(clients, pr[1])].listed}

\* C1: a tools/call for a name that is not a key of toolMap returns (does not
\* throw) an error-flagged response whose text contains the requested name and
\* currentProfile, carries the request's _meta, and calls no backend.
C1_NotFoundIsErrorResponse ==
    [][(CallToolStep /\ ~HasKey(toolMap, call'.name)) =>
          /\ call'.pc = "done"
          /\ call'.resp.isError = TRUE
          /\ Contains(call'.resp.content, call'.name)
          /\ Contains(call'.resp.content, currentProfile)
          /\ call'.resp.meta = call'.meta
          /\ call'.sent = <<>>]_vars

C1_Witness ==
    /\ call.kind = "call" /\ call.pc = "done"
    /\ toolMap # <<>> /\ ~HasKey(toolMap, call.name)
    /\ call.meta = "token"
    /\ call.resp.isError = TRUE
    /\ currentProfile = pDev

\* C2: when <backendId>_<originalName> is in the registry for an operation that
\* backend <backendId> of the connection set reported, a tools/call for it makes
\* exactly one callTool, on that backend's client, with the original name and
\* the caller's arguments; and a callTool that settles returns either the
\* backend's result as it is or a wrapped error.
C2_RoutesToOwningBackend ==
    [][/\ CallToolStep =>
            \A pr \in RegisteredPairs :
                (call'.name = PrefixedName(pr[1], pr[2]) /\ HasKey(toolMap, call'.name)) =>
                    call'.sent = <<[client |-> MapGet(clients, pr[1]), serverId |-> pr[1],
                                    name |-> pr[2], arguments |-> Arguments(call'.args)]>>
       /\ (call.pc = "await" /\ call'.pc = "done") =>
            \/ call'.resp \in BackendResults
            \/ call'.resp.isError /\ call'.resp.meta = call.meta
                  /\ Contains(call'.resp.content, call.name)]_vars

\* C3: two distinct (backendId, originalName) pairs of one activation never have
\* the same qualified name, so the registry has one entry per reported
\* operation.
C3_QualifiedNamesUnique ==
    /\ \A pr1, pr2 \in RegisteredPairs :
          pr1 # pr2 => PrefixedName(pr1[1], pr1[2]) # PrefixedName(pr2[1], pr2[2])
    /\ Len(toolMap) = Cardinality(RegisteredPairs)

\* no start or switchProfile call is in progress and the proxy serves
Quiescent == Serving /\ Running(sw) = {}

\* C4: after a completed activation every entry of handleListTools is named
\* <backendId>_<originalName> for a backend id in clients and an operation that
\* this backend reported.
C4_ListedNamesFromConnectedBackends ==
    Quiescent =>
        \A i \in 1..Len(toolMap) :
            \E pr \in ConnectedPairs :
                /\ ListTools(toolMap, currentProfile)[i].name = PrefixedName(pr[1], pr[2])
                /\ \E c \in 1..Len(cl) : cl[c].sid = pr[1] /\ cl[c].listed

\* switchProfile call p has returned or thrown, and no later call was made
Completed(p) == sw[p].pc \in {"done", "threw"} /\ \A q \in Switches : q > p => sw[q].pc = "idle"

\* C5: after a switchProfile that ran alone, every client of an earlier
\* activation is out of clients and had close called on its transport (or its
\* transport had closed before), and toolMap has no entry of an earlier
\* activation.
C5_SwitchLeavesNothingOfOldProfile ==
    \A p \in Switches :
        (Completed(p) /\ sw[p].alone) =>
            /\ \A c \in 1..Len(cl) :
                  cl[c].act # p =>
                      /\ c \notin Values(clients)
                      /\ cl[c].closeN >= 1 \/ cl[c].st # "open"
            /\ \A i \in 1..Len(toolMap) : toolMap[i].val.act = p

C5_Witness ==
    /\ Completed(1) /\ sw[1].alone /\ sw[1].pc = "done"
    /\ sw[1].profile = pDev
    /\ toolMap # <<>>
    /\ \E c \in 1..Len(cl) : cl[c].act = 0 /\ cl[c].closeN >= 1 /\ cl[c].listed
    /\ \E c \in 1..Len(cl) : cl[c].act = 0 /\ cl[c].closeN >= 1 /\ cl[c].st = "open"

\* the ids of the entries of a config, in order
Ids(es) == [i \in 1..Len(es) |-> es[i].id]

\* C6: after an activation in which some backends failed to connect, the
\* registry has operations only from the backends of this activation that
\* connected, every backend of the profile was attempted, and the activation did
\* not throw; with no backend connected the registry is empty.
C6_FailedBackendsIsolated ==
    \A p \in Procs :
        /\ (sw[p].pc = "threw" \/ sw[p].fatal) =>
              (sw[p].profile \notin Loadable \/ sw[p].i > Len(sw[p].entries))
        /\ (Quiescent /\ sw[p].pc = "done" /\ \A q \in Switches : q > p => sw[q].pc = "idle") =>
              /\ sw[p].tried = Ids(ConfigFile(sw[p].profile))
              /\ \A i \in 1..Len(toolMap) :
                    \E c \in 1..Len(cl) :
                        /\ cl[c].sid = toolMap[i].val.serverId
                        /\ cl[c].st \in {"open", "closed"}
              /\ (\A i \in 1..Len(sw[p].entries) :
                     \/ sw[p].entries[i].kind = "none"
                     \/ \E c \in 1..Len(cl) :
                           cl[c].act = p /\ cl[c].sid = sw[p].entries[i].id /\ cl[c].st = "failed")
                  => toolMap = <<>>

\* C7: a switchProfile whose config fails to load leaves clients, toolMap and
\* currentProfile as they were before the call, and closes none of the
\* backends that were active.
C7_FailedLoadKeepsActiveProfile ==
    \A p \in Switches :
        (Completed(p) /\ sw[p].alone /\ sw[p].pc = "threw") =>
            /\ clients = sw[p].pre.clients
            /\ toolMap = sw[p].pre.toolMap
            /\ currentProfile = sw[p].pre.profile
            /\ \A i \in 1..Len(sw[p].pre.clients) : cl[sw[p].pre.clients[i].val].closeN = 0

\* C8: in every state all entries of toolMap and all clients of the connection
\* set were created by one and the same activation.
C8_OneActivationOwnsAll ==
    Cardinality({toolMap[i].val.act : i \in 1..Len(toolMap)}
                \cup {cl[clients[i].val].act : i \in 1..Len(clients)}) <= 1

\* a switchProfile call is suspended at an await
Suspended(p) == sw[p].pc \in {"cleanT", "cleanC", "read", "conn", "list"}

\* C9: what a request sees at a suspension point of a switchProfile is the empty
\* registry or the registry the switch ends with: a registry that is not empty
\* at a suspension point does not change any more before the switch is over.
C9_RequestsSeeEmptyOrFinalRegistry ==
    [][\A p \in Switches :
          (Suspended(p) /\ sw[p].alone /\ sw'[p].alone /\ toolMap # <<>>) =>
              toolMap' = toolMap]_vars

\* C10: with no switch in progress, a tools/call for a registered name whose
\* backend is not in clients, or is there with a closed connection, returns an
\* error-flagged response whose text names the backend id and currentProfile.
C10_DownBackendNamesBackendAndProfile ==
    [][(CallToolStep /\ Quiescent /\ HasKey(toolMap, call'.name)) =>
          LET serverId == MapGet(toolMap, call'.name).serverId IN
          (~HasKey(clients, serverId) \/ cl[MapGet(clients, serverId)].st # "open") =>
              /\ call'.pc = "done"
              /\ call'.resp.isError = TRUE
              /\ Contains(call'.resp.content, serverId)
              /\ Contains(call'.resp.content, currentProfile)]_vars

\* the error texts a callTool can fail with
InvokeErrors == {ToolFailed.err, ConnectionClosed.err, <<"Error: Not connected">>}

\* C11: a callTool that throws or rejects, also because a switchProfile closed
\* the connection while it was in flight, ends the request with a returned
\* response that is error-flagged, holds the requested name and the error text
\* and carries the request's _meta; the process and the sessions are left as
\* they were.
C11_InvokeFailureIsWrapped ==
    [][(call'.kind = "call" /\ call'.pc = "done" /\ call' # call /\ call'.sent # <<>>) =>
          /\ \/ call.pc = "await" /\ call'.resp \in BackendResults
             \/ /\ call'.resp.isError = TRUE
                /\ Contains(call'.resp.content, call'.name)
                /\ \E e \in InvokeErrors : Contains(call'.resp.content, e)
                /\ call'.resp.meta = call'.meta
          /\ exited' = exited /\ transports' = transports /\ sessions' = sessions]_vars

C11_Witness ==
    /\ call.kind = "call" /\ call.pc = "done" /\ call.meta = "token"
    /\ Contains(call.resp.content, ConnectionClosed.err)
    /\ cl[call.c].closeN >= 1
    /\ sw[1].pc \in {"cleanC", "read", "conn", "list"}

\* the session ids that are keys of the session map
SessionKeys == {transports[j] : j \in 1..Len(transports)}

C13_SessionClosedOnce ==
    \A s \in 1..Len(sessions) : sessions[s].closeN <= 1

\* C16: a step that is not one of start or switchProfile leaves clients and
\* toolMap as they are, and a step of start or switchProfile leaves the session
\* map and the sessions as they are.
C16_StateOwnership ==
    [][/\ sw' = sw => (clients' = clients /\ toolMap' = toolMap)
       /\ sw' # sw => (transports' = transports /\ sessions' = sessions)]_vars

\* C20: a session whose caller is still connected and whose transport was not
\* closed is a key of the session map.
C20_OpenSessionsAreRoutable ==
    \A s \in 1..Len(sessions) :
        (sessions[s].open /\ sessions[s].req) => s \in SessionKeys

\* the backend ids of the configs
ServerIds == {sA, sAB, sK, sN}

\* the outcomes activation p had: the backends whose client.connect succeeded
\* and those whose listTools succeeded
Connected(p) ==
    [sid \in ServerIds |->
        \E c \in 1..Len(cl) : cl[c].act = p /\ cl[c].sid = sid /\ cl[c].st \in {"open", "closed"}]
Listed(p) ==
    [sid \in ServerIds |-> \E c \in 1..Len(cl) : cl[c].act = p /\ cl[c].sid = sid /\ cl[c].listed]

\* the proxy right after construction, as a record, with start(profile) called
FreshProxy(profile) ==
    [clients |-> <<>>, toolMap |-> <<>>, currentProfile |-> pDefault, config |-> <<>>,
     transports |-> <<>>, sessions |-> <<>>, cl |-> <<>>, exited |-> FALSE,
     sw |-> [p \in Procs |-> IF p = 0 THEN [IdleProc EXCEPT !.pc = "read", !.profile = profile]
                             ELSE IdleProc]]

\* the awaits of an activation settled one after the other with the outcomes
\* conn and lst
RECURSIVE FreshSteps(_, _, _)
FreshSteps(m, conn, lst) ==
    IF m.sw[0].pc = "conn" THEN
        FreshSteps(ConnectSettled(m, 0, conn[m.cl[m.sw[0].c].sid]), conn, lst)
    ELSE IF m.sw[0].pc = "list" THEN
        FreshSteps(ListSettled(m, 0, lst[m.cl[m.sw[0].c].sid]), conn, lst)
    ELSE m

\* the state a fresh proxy is in after activating profile with these outcomes
FreshActivate(profile, conn, lst) ==
    FreshSteps(ReadSettled(FreshProxy(profile), 0, "ok"), conn, lst)

\* what is compared: the keys of clients and the entries of toolMap, in order
ClientKeys(cls) == [i \in 1..Len(cls) |-> cls[i].key]
Entries(tm) ==
    [i \in 1..Len(tm) |-> [key |-> tm[i].key, serverId |-> tm[i].val.serverId, tool |-> tm[i].val.tool]]

\* C14: after activate(A); activate(B), run one after the other, the keys of
\* clients, the entries of toolMap and currentProfile are those of a fresh
\* activate(B) with the same connect and listTools outcomes for B's backends.
C14_SwitchEqualsFreshActivation ==
    \A p \in Switches :
        (Completed(p) /\ sw[p].alone /\ sw[p].pc = "done") =>
            LET fresh == FreshActivate(sw[p].profile, Connected(p), Listed(p)) IN
            /\ ClientKeys(clients) = ClientKeys(fresh.clients)
            /\ Entries(toolMap) = Entries(fresh.toolMap)
            /\ currentProfile = fresh.currentProfile

C14_Witness ==
    /\ Completed(1) /\ sw[1].alone /\ sw[1].pc = "done"
    /\ sw[0].profile = pDefault /\ sw[1].profile = pDev
    /\ Connected(0)[sA] /\ Listed(0)[sA]
    /\ Connected(1)[sA] /\ Listed(1)[sA]
    /\ ~Connected(1)[sK]

C17_DeactivateIndependentIdempotent ==
    [][/\ \A p \in Switches :
            (sw[p].pc \in {"idle", "cleanC"} /\ sw'[p].pc = "read" /\ sw'[p].alone) =>
                /\ toolMap' = <<>> /\ clients' = <<>>
                /\ \A i \in 1..Len(clients) :
                      cl'[clients[i].val].st # "open" \/ cl'[clients[i].val].closeN >= 1
                /\ (sw[p].pc = "idle" /\ clients = <<>> /\ toolMap = <<>>) =>
                      UNCHANGED <<cl, clients, toolMap, currentProfile, config, transports, sessions>>
       /\ \A c \in 1..Len(cl) : cl[c].st = "closed" => cl'[c].closeN = cl[c].closeN]_vars

C17_Witness ==
    /\ Completed(2) /\ sw[1].pc = "threw" /\ sw[2].pc = "threw"
    /\ \E c1, c2 \in 1..Len(cl) :
          /\ cl[c1].act = 0 /\ cl[c1].st = "open" /\ cl[c1].closeN = 1
          /\ cl[c2].act = 0 /\ cl[c2].st = "closed" /\ cl[c2].closeN = 1 /\ c1 < c2
    /\ clients = <<>> /\ toolMap = <<>>

\* C18: after a completed activation every backend in clients has answered
\* listTools: a backend whose connect succeeded and whose listTools failed is
\* not in clients.
C18_OnlyListedBackendsStay ==
    Quiescent => \A i \in 1..Len(clients) : cl[clients[i].val].listed

\* C19: every entry of toolMap names a backend id that is a key of clients.
C19_RegistryWithinConnectionSet ==
    \A i \in 1..Len(toolMap) : HasKey(clients, toolMap[i].val.serverId)

\* C21: every client whose connect succeeded and whose transport was not
\* closed is a value of clients, so that the next cleanup() closes it.
C21_NoConnectionLeaked ==
    \A c \in 1..Len(cl) : cl[c].st = "open" => c \in Values(clients)

====
